---- MODULE Spec2Model ----
(***************************************************************************)
(* Model of vbrain's SourcesTransform (source selection and cortical       *)
(* projection of sources on the brain surface) and of the change flags and *)
(* set_data of BrainMeshVisual.                                            *)
(*                                                                         *)
(* Conventions.                                                            *)
(*  - numpy arrays are sequences; index v of the model is numpy index v-1. *)
(*  - floating point numbers are exact rationals [n, d] with d > 0 and     *)
(*    gcd(n, d) = 1; d = 0 encodes the non-finite values of IEEE-754       *)
(*    (n = 0: NaN, n = 1: +inf, n = -1: -inf).                             *)
(*  - coordinates are integer triples <<x, y, z>>; squared euclidian       *)
(*    distances are integers and compared as such (sqrt is monotone).      *)
(***************************************************************************)
EXTENDS Integers, Sequences, FiniteSets

\* ------------------------------------------------------------------ bounds
MaxSources == 3

\* --------------------------------------------------------------- constants
DefaultRadius == 10

\* ------------------------------------------------- floating point numbers
Abs(i) == IF i < 0 THEN -i ELSE i

RECURSIVE GCD(_, _)
GCD(a, b) == IF b = 0 THEN a ELSE GCD(b, a % b)

Rat(n, d) ==
    IF d = 0 THEN [n |-> IF n > 0 THEN 1 ELSE IF n < 0 THEN -1 ELSE 0, d |-> 0]
    ELSE LET s == IF d < 0 THEN -1 ELSE 1
             g == GCD(Abs(n), Abs(d))
         IN  [n |-> (s * n) \div g, d |-> (s * d) \div g]

RInt(i) == [n |-> i, d |-> 1]
NaN == [n |-> 0, d |-> 0]
IsNaN(a) == a.d = 0 /\ a.n = 0
IsFinite(a) == a.d > 0

RAdd(a, b) ==
    IF IsNaN(a) \/ IsNaN(b) THEN NaN
    ELSE IF a.d = 0 /\ b.d = 0 THEN (IF a.n = b.n THEN a ELSE NaN)
    ELSE IF a.d = 0 THEN a
    ELSE IF b.d = 0 THEN b
    ELSE Rat(a.n * b.d + b.n * a.d, a.d * b.d)

RNeg(a) == [n |-> -a.n, d |-> a.d]

RSub(a, b) == RAdd(a, RNeg(b))

RMul(a, b) ==
    IF IsNaN(a) \/ IsNaN(b) THEN NaN
    ELSE IF a.d = 0 \/ b.d = 0
         THEN (IF a.n = 0 \/ b.n = 0 THEN NaN
               ELSE Rat(IF (a.n > 0) = (b.n > 0) THEN 1 ELSE -1, 0))
    ELSE Rat(a.n * b.n, a.d * b.d)

\* numpy true division: x/0 is nan for x = 0 and +-inf otherwise (a warning,
\* not an exception).
RDiv(a, b) ==
    IF IsNaN(a) \/ IsNaN(b) THEN NaN
    ELSE IF a.d = 0 /\ b.d = 0 THEN NaN
    ELSE IF b.d = 0 THEN RInt(0)
    ELSE IF a.d = 0 THEN (IF b.n < 0 THEN RNeg(a) ELSE a)
    ELSE Rat(a.n * b.d, a.d * b.n)

\* a < b and a <= b; any comparison with NaN is false.
RLess(a, b) ==
    IF IsNaN(a) \/ IsNaN(b) THEN FALSE
    ELSE IF a.d = 0 THEN a.n < 0 /\ ~(b.d = 0 /\ b.n < 0)
    ELSE IF b.d = 0 THEN b.n > 0
    ELSE a.n * b.d < b.n * a.d

RLeq(a, b) == ~IsNaN(a) /\ ~IsNaN(b) /\ (a = b \/ RLess(a, b))

Range(s) == {s[i] : i \in DOMAIN s}

\* min / max of a non-empty set of finite numbers.
RMin(S) == IF \E x \in S : IsNaN(x) THEN NaN ELSE CHOOSE m \in S : \A x \in S : RLeq(m, x)
RMax(S) == IF \E x \in S : IsNaN(x) THEN NaN ELSE CHOOSE m \in S : \A x \in S : RLeq(x, m)

\* a != b on floats: NaN differs from everything, itself included.
RNeq(a, b) == IsNaN(a) \/ IsNaN(b) \/ a # b

\* ----------------------------------------------------------------- options
None == [none |-> TRUE, v |-> <<>>]
Some(x) == [none |-> FALSE, v |-> x]

\* ---------------------------------------------------------------- geometry
Sign(x) == IF x > 0 THEN 1 ELSE IF x < 0 THEN -1 ELSE 0

Square(p) == p[1] * p[1] + p[2] * p[2] + p[3] * p[3]

Diff(p, q) == <<p[1] - q[1], p[2] - q[2], p[3] - q[3]>>

\* np.sqrt of a perfect square.
Sqrt(m) == CHOOSE r \in 0..m : r * r = m

\* ascending sequence of the elements of the index set S (order of np.where).
RECURSIVE Ascending(_)
Ascending(S) ==
    IF S = {} THEN <<>>
    ELSE LET m == CHOOSE x \in S : \A y \in S : x <= y
         IN  <<m>> \o Ascending(S \ {m})

\* --------------------------------------------------------- spatial queries
\* eucl = np.sqrt(np.square(vert - np.ravel(xyz)).sum(1)), kept squared.
Eucl2(vert, xyz) == [v \in 1..Len(vert) |-> Square(Diff(vert[v], xyz))]

UnderRadius_strict(e2, r) == e2 < r * r

\* eucl <= radius
UnderRadius(e2, r) == e2 <= r * r

\* np.sign(vert[:, 0]) == np.sign(xyz[0])
SameHemisphere(p, xyz) == Sign(p[1]) = Sign(xyz[1])

\* Returns the indices of the vertices under radius (in the hemisphere of
\* the source unless contribute) and their distances, in the same order.
_proximal_vertices(vert, xyz, r, contribute) ==
    LET eucl2 == Eucl2(vert, xyz)
        idx == Ascending({v \in 1..Len(vert) :
                   /\ UnderRadius(eucl2[v], r)
                   /\ (contribute \/ SameHemisphere(vert[v], xyz))})
    IN  [idx |-> idx, eucl |-> [j \in 1..Len(idx) |-> Sqrt(eucl2[idx[j]])]]

\* Indices of the vertices at the minimum distance over ALL vertices that
\* also lie in the hemisphere of the source (unless contribute).
_closest_vertex(vert, xyz, contribute) ==
    LET eucl2 == Eucl2(vert, xyz)
        emin == CHOOSE m \in Range(eucl2) : \A e \in Range(eucl2) : m <= e
    IN  Ascending({v \in 1..Len(vert) :
            /\ eucl2[v] = emin
            /\ (contribute \/ SameHemisphere(vert[v], xyz))})

RECURSIVE SumSquares(_, _)
SumSquares(vert, idx) ==
    IF idx = <<>> THEN 0
    ELSE Square(vert[Head(idx)]) + SumSquares(vert, Tail(idx))

\* eucl_xyz < eucl_vert, where eucl_vert is the root of the sum of the
\* squares of every coordinate of every selected vertex (0 for no vertex).
_isInside(vert, xyz, contribute) ==
    LET idx == _closest_vertex(vert, xyz, contribute)
    IN  Square(xyz) < SumSquares(vert, idx)

\* -------------------------------------------------------------- projection
\* utils.normalize(x, tomin, tomax): keeps every entry inside [tomin, tomax].
normalize(x, tomin, tomax) ==
    [j \in 1..Len(x) |->
        IF RLess(x[j], tomin) THEN tomin
        ELSE IF RLess(tomax, x[j]) THEN tomax ELSE x[j]]

\* idxunmasked = np.where(data.mask == False)[0]
Unmasked(m) == Ascending({k \in 1..Len(m) : m[k] = FALSE})

\* the value handed to progressbar.setValue for (0-based) position k of N.
ProgressValue(k, N) == Rat(100 * k, N)

\* position of vertex v in the index sequence idx (0 when absent).
Position(idx, v) ==
    IF \E j \in 1..Len(idx) : idx[j] = v
    THEN CHOOSE j \in 1..Len(idx) : idx[j] = v ELSE 0

\* body of the loop of _get_mask for source k.
GetMaskStep(st, k, N, vert, xyz, data, r, contribute) ==
    LET pv == _proximal_vertices(vert, xyz[k], r, contribute)
        fact == normalize([j \in 1..Len(pv.eucl) |->
                              RSub(RInt(1), RDiv(RInt(pv.eucl[j]), RInt(r)))],
                          RInt(0), RInt(1))
    IN  [prop |-> [v \in 1..Len(vert) |->
                     IF Position(pv.idx, v) > 0 THEN st.prop[v] + 1 ELSE st.prop[v]],
         mask |-> [v \in 1..Len(vert) |->
                     IF Position(pv.idx, v) > 0
                     THEN RAdd(st.mask[v], RMul(RInt(data[k]), fact[Position(pv.idx, v)]))
                     ELSE st.mask[v]],
         log  |-> Append(st.log, ProgressValue(k - 1, N))]

RECURSIVE GetMaskLoop(_, _, _, _, _, _, _, _)
GetMaskLoop(st, ks, N, vert, xyz, data, r, contribute) ==
    IF ks = <<>> THEN st
    ELSE GetMaskLoop(GetMaskStep(st, Head(ks), N, vert, xyz, data, r, contribute),
                     Tail(ks), N, vert, xyz, data, r, contribute)

\* Returns prop and mask, and the values reported to the progress bar.
_get_mask(nv, vert, xyz, data, dmask, r, set_to, contribute) ==
    LET idxunmasked == Unmasked(dmask)
    IN  GetMaskLoop([prop |-> [v \in 1..nv |-> set_to],
                     mask |-> [v \in 1..nv |-> RInt(0)],
                     log  |-> <<>>],
                    idxunmasked, Len(idxunmasked), vert, xyz, data, r, contribute)

\* ------------------------------------------------------------------ colors
\* _rescale_cmap scaling every entry into [to_min, to_max].
_rescale_cmap_all(cort, to_min, to_max, val) ==
    LET non_zero == [v \in 1..Len(cort) |-> RNeq(cort[v], val)]
        nz == {v \in 1..Len(cort) : non_zero[v]}
    IN  IF nz = {} THEN [raised |-> TRUE, cort |-> cort, non_zero |-> non_zero]
        ELSE LET lo == RMin({cort[v] : v \in nz})
                 hi == RMax({RSub(cort[v], lo) : v \in nz})
             IN  [raised |-> FALSE,
                  cort |-> [v \in 1..Len(cort) |->
                              RAdd(RMul(RDiv(RSub(cort[v], lo), hi),
                                        RSub(to_max, to_min)), to_min)],
                  non_zero |-> non_zero]

\* cort[non_zero].min() of an empty selection raises ValueError; a zero
\* range gives 0/0 = nan entries.
_rescale_cmap(cort, to_min, to_max, val) ==
    LET non_zero == [v \in 1..Len(cort) |-> RNeq(cort[v], val)]
        nz == {v \in 1..Len(cort) : non_zero[v]}
    IN  IF nz = {} THEN [raised |-> TRUE, cort |-> cort, non_zero |-> non_zero]
        ELSE LET lo == RMin({cort[v] : v \in nz})
                 c1 == [v \in 1..Len(cort) |->
                          IF non_zero[v] THEN RSub(cort[v], lo) ELSE cort[v]]
                 hi == RMax({c1[v] : v \in nz})
                 c2 == [v \in 1..Len(cort) |->
                          IF non_zero[v] THEN RDiv(c1[v], hi) ELSE c1[v]]
                 c3 == [v \in 1..Len(cort) |->
                          IF non_zero[v]
                          THEN RAdd(RMul(c2[v], RSub(to_max, to_min)), to_min)
                          ELSE c2[v]]
             IN  [raised |-> FALSE, cort |-> c3, non_zero |-> non_zero]

\* utils.array2colormap: the color of the colormap for each value, with alpha.
array2colormap(x) ==
    [v \in 1..Len(x) |-> [rgb |-> [from |-> "cmap", x |-> x[v]], alpha |-> "slider"]]

\* atlas.d_vcolor: the default color of the surface at each vertex.
d_vcolor(nv) ==
    [v \in 1..nv |-> [rgb |-> [from |-> "d_vcolor", x |-> RInt(v)], alpha |-> "default"]]

\* _array2cmap copying the whole default color, alpha included.
_array2cmap_whole(x, non_zero) ==
    LET cmap == array2colormap(x)
    IN  [v \in 1..Len(x) |-> IF non_zero[v] THEN cmap[v] ELSE d_vcolor(Len(x))[v]]

\* The color array handed to mesh_data.set_vertex_colors.
_array2cmap(x, non_zero) ==
    LET cmap == array2colormap(x)
    IN  [v \in 1..Len(x) |->
           IF non_zero[v] THEN cmap[v]
           ELSE [rgb |-> d_vcolor(Len(x))[v].rgb, alpha |-> cmap[v].alpha]]

\* data.min() / data.max() of the masked array (masked when all is masked).
DataMin(data, dmask) ==
    IF Unmasked(dmask) = <<>> THEN NaN
    ELSE RMin({RInt(data[k]) : k \in Range(Unmasked(dmask))})

DataMax(data, dmask) ==
    IF Unmasked(dmask) = <<>> THEN NaN
    ELSE RMax({RInt(data[k]) : k \in Range(Unmasked(dmask))})

\* x[non_zero]
Compress(x, non_zero) ==
    LET idx == Ascending({v \in 1..Len(x) : non_zero[v]})
    IN  [j \in 1..Len(idx) |-> x[idx[j]]]

\* ------------------------------------------------------------------- state
VARIABLES
    t_radius,          \* the t_radius argument given to __init__
    radius,            \* self.radius
    vert,              \* self.atlas.vert (self.atlas._nv = Len(vert))
    xyz,               \* self.sources.xyz (None or the coordinates)
    data,              \* self.sources.data (values)
    data_mask,         \* self.sources.data.mask (TRUE = hidden)
    sources_shown,     \* mask drawn by the last sources.update()
    current_mask,      \* self.current_mask
    current_non_zero,  \* self.current_non_zero
    vertex_colors,     \* colors held by atlas.mesh.mesh_data
    _data_changed,     \* atlas.mesh._data_changed
    colorbar,          \* values handed to the last cbupdate
    progress_shown,    \* progressbar visible
    progress_log,      \* values given to progressbar.setValue by the last call
    locals,            \* prop, mask and cort_mask of the last projection call
    last,              \* the last call and how it ended
    call,              \* a direct call of one function: arguments and result
    _color_changed,    \* atlas.mesh._color_changed
    _light_changed,    \* atlas.mesh._light_changed
    mesh               \* the last call on the mesh visual and what it ran

vars == <<t_radius, radius, vert, xyz, data, data_mask, sources_shown,
          current_mask, current_non_zero, vertex_colors, _data_changed,
          colorbar, progress_shown, progress_log, locals, last, call,
          _color_changed, _light_changed, mesh>>

\* the mesh visual but _data_changed
meshrest == <<_color_changed, _light_changed, mesh>>

\* everything but call
obj == <<t_radius, radius, vert, xyz, data, data_mask, sources_shown,
         current_mask, current_non_zero, vertex_colors, _data_changed,
         colorbar, progress_shown, progress_log, locals, last, meshrest>>

\* ------------------------------------------------------------------ inputs
\* surface: two lateral vertices, one on the midline, one above the right one.
Cloud == << <<5, 0, 0>>, <<-10, 0, 0>>, <<0, 10, 0>>, <<5, 10, 0>> >>

\* a source on the surface, one outside, one on the midline, one inside.
SourcePoints == << <<5, 0, 0>>, <<10, 0, 0>>, <<0, 0, 0>>, <<-5, 0, 0>> >>

Values == {-2, 0, 2}

TRadii == {5, 10}

Selects == {"all", "none", "left", "right", "inside", "outside"}

\* source sets of 1..MaxSources points, listed in the order of SourcePoints.
SourceSets ==
    UNION {{[k \in 1..K |-> SourcePoints[f[k]]] :
              f \in {g \in [1..K -> 1..Len(SourcePoints)] :
                        \A i \in 1..K, j \in 1..K : i < j => g[i] <= g[j]}} :
           K \in 1..MaxSources}

NoLocals == [prop |-> <<>>, mask |-> <<>>, cort_mask |-> <<>>]

Call(op, select, status, via, warned) ==
    [op |-> op, select |-> select, status |-> status, via |-> via, warned |-> warned]

NoCall == [fn |-> "none"]

NoMesh == [op |-> "none"]

\* the mesh visual after a draw: nothing to update.
MeshDrawn ==
    /\ _data_changed = FALSE
    /\ _color_changed = FALSE
    /\ _light_changed = FALSE
    /\ mesh = NoMesh

\* __init__(t_radius) (self.radius = t_radius=10.0), with the collaborators'
\* state: no source, or one of the source sets.
Construct(radii, sets) ==
    /\ t_radius \in radii
    /\ radius = DefaultRadius
    /\ vert = Cloud
    /\ \/ xyz = None /\ data = <<>>
       \/ \E s \in sets :
             /\ xyz = Some(s)
             /\ data \in [1..Len(s) -> Values]
    /\ data_mask = [k \in 1..Len(data) |-> FALSE]
    /\ sources_shown = data_mask
    /\ current_mask = None
    /\ current_non_zero = None
    /\ vertex_colors = d_vcolor(Len(vert))
    /\ colorbar = None
    /\ progress_shown = FALSE
    /\ progress_log = <<>>
    /\ locals = NoLocals
    /\ last = Call("__init__", "", "returned", "NONE", FALSE)

\* construction with the default t_radius
Init ==
    /\ Construct({DefaultRadius}, SourceSets)
    /\ MeshDrawn
    /\ call = NoCall

\* -------------------------------------------------------------- s_display
HemisphereIdx_strict(select, p) == IF select = "left" THEN p[1] > 0 ELSE p[1] < 0

\* idx of the hemisphere selection.
HemisphereIdx(select, p) == IF select = "left" THEN p[1] >= 0 ELSE p[1] <= 0

InsideMask_noinvert(select, inside) == inside

\* mask given to source p by the inside / outside selection.
InsideMask(select, inside) == IF select = "inside" THEN ~inside ELSE inside

s_display(select) ==
    /\ \/ /\ select \in {"all", "none"}
          /\ data_mask' = [k \in 1..Len(data) |-> select = "none"]
          /\ sources_shown' = data_mask'
          /\ last' = Call("s_display", select, "returned", "NONE", FALSE)
          /\ progress_log' = <<>>
          /\ UNCHANGED progress_shown
       \/ /\ select \in {"left", "right"}
          /\ IF xyz.none
             THEN \* None[:, 0] raises TypeError
                  /\ last' = Call("s_display", select, "raised", "NONE", FALSE)
                  /\ UNCHANGED <<data_mask, sources_shown>>
             ELSE /\ data_mask' = [k \in 1..Len(data) |-> HemisphereIdx(select, xyz.v[k])]
                  /\ sources_shown' = data_mask'
                  /\ last' = Call("s_display", select, "returned", "NONE", FALSE)
          /\ progress_log' = <<>>
          /\ UNCHANGED progress_shown
       \/ /\ select \in {"inside", "outside"}
          /\ data_mask' = [k \in 1..Len(data) |->
                             InsideMask(select, _isInside(vert, xyz.v[k], FALSE))]
          /\ progress_log' = [k \in 1..Len(data) |-> ProgressValue(k - 1, Len(data))]
          /\ progress_shown' = FALSE
          /\ sources_shown' = data_mask'
          /\ last' = Call("s_display", select, "returned", "NONE", FALSE)
    /\ locals' = NoLocals
    /\ UNCHANGED <<t_radius, radius, vert, xyz, data, current_mask, current_non_zero,
                   vertex_colors, _data_changed, colorbar, call, meshrest>>

\* ----------------------------------------------------- cortical_projection
HasSources_always == TRUE

\* self.sources.xyz is not None
HasSources == ~xyz.none

cortical_projection ==
    /\ IF HasSources
       THEN \E gm \in {_get_mask(Len(vert), vert, xyz.v, data, data_mask, radius, 1, FALSE)} :
            \E cort_mask \in {[v \in 1..Len(vert) |-> RDiv(gm.mask[v], RInt(gm.prop[v]))]} :
            \E rs \in {_rescale_cmap(cort_mask, DataMin(data, data_mask),
                                     DataMax(data, data_mask), RInt(0))} :
                /\ progress_log' = gm.log
                /\ locals' = [prop |-> gm.prop, mask |-> gm.mask, cort_mask |-> cort_mask]
                /\ IF rs.raised
                   THEN \* the ValueError leaves the method before progressbar.hide()
                        /\ progress_shown' = TRUE
                        /\ last' = Call("cortical_projection", "", "raised", "NONE", FALSE)
                        /\ UNCHANGED <<current_mask, current_non_zero, vertex_colors,
                                       _data_changed, colorbar>>
                   ELSE /\ vertex_colors' = _array2cmap(rs.cort, rs.non_zero)
                        /\ _data_changed' = TRUE
                        /\ current_mask' = Some(rs.cort)
                        /\ current_non_zero' = Some(rs.non_zero)
                        /\ colorbar' = Some(Compress(rs.cort, rs.non_zero))
                        /\ progress_shown' = FALSE
                        /\ last' = Call("cortical_projection", "", "returned", "COMPLETE", FALSE)
       ELSE /\ last' = Call("cortical_projection", "", "returned", "NO_SOURCES", TRUE)
            /\ progress_shown' = FALSE
            /\ progress_log' = <<>>
            /\ locals' = NoLocals
            /\ UNCHANGED <<current_mask, current_non_zero, vertex_colors,
                           _data_changed, colorbar>>
    /\ UNCHANGED <<t_radius, radius, vert, xyz, data, data_mask, sources_shown, call,
                   meshrest>>

\* ---------------------------------------------------- cortical_repartition
cortical_repartition ==
    /\ IF HasSources
       THEN \E gm \in {_get_mask(Len(vert), vert, xyz.v, data, data_mask, radius, 0, FALSE)} :
            \E prop \in {[v \in 1..Len(vert) |-> RInt(gm.prop[v])]} :
            \E non_zero \in {[v \in 1..Len(vert) |-> gm.prop[v] # 0]} :
                /\ progress_log' = gm.log
                /\ locals' = [prop |-> gm.prop, mask |-> gm.mask, cort_mask |-> <<>>]
                /\ vertex_colors' = _array2cmap(prop, non_zero)
                /\ _data_changed' = TRUE
                /\ current_mask' = Some(prop)
                /\ current_non_zero' = Some(non_zero)
                /\ colorbar' = Some(Compress(prop, non_zero))
                /\ progress_shown' = FALSE
                /\ last' = Call("cortical_repartition", "", "returned", "COMPLETE", FALSE)
       ELSE /\ last' = Call("cortical_repartition", "", "returned", "NO_SOURCES", TRUE)
            /\ progress_shown' = FALSE
            /\ progress_log' = <<>>
            /\ locals' = NoLocals
            /\ UNCHANGED <<current_mask, current_non_zero, vertex_colors,
                           _data_changed, colorbar>>
    /\ UNCHANGED <<t_radius, radius, vert, xyz, data, data_mask, sources_shown, call,
                   meshrest>>

Next ==
    \/ \E select \in Selects : s_display(select)
    \/ cortical_projection
    \/ cortical_repartition

Spec == Init /\ [][Next]_vars

\* ------------------------------------------- construction with any t_radius
SingleSources == {s \in SourceSets : Len(s) = 1}

InitRadius ==
    /\ Construct(TRadii, SingleSources)
    /\ MeshDrawn
    /\ call = NoCall

SpecRadius == InitRadius /\ [][Next]_vars

\* ------------------------------------------------ direct call of _get_mask
MaskPatterns(K) == [1..K -> BOOLEAN]

Fills == {0, 1, 2}

InitGetMask ==
    /\ Construct({DefaultRadius}, {})
    /\ MeshDrawn
    /\ \E s \in SourceSets, r \in TRadii, f \in Fills, c \in BOOLEAN :
       \E d \in [1..Len(s) -> Values], m \in MaskPatterns(Len(s)) :
          call = [fn |-> "_get_mask", done |-> FALSE, vert |-> Cloud, xyz |-> s,
                  data |-> d, dmask |-> m, r |-> r, set_to |-> f, contribute |-> c,
                  prop |-> <<>>, mask |-> <<>>, log |-> <<>>]

CallGetMask ==
    /\ call.fn = "_get_mask" /\ ~call.done
    /\ \E gm \in {_get_mask(Len(call.vert), call.vert, call.xyz, call.data, call.dmask,
                             call.r, call.set_to, call.contribute)} :
          call' = [call EXCEPT !.done = TRUE, !.prop = gm.prop, !.mask = gm.mask,
                               !.log = gm.log]
    /\ UNCHANGED obj

SpecGetMask == InitGetMask /\ [][CallGetMask]_vars

\* ------------------------------------------------ direct call of _isInside
InsidePool == << <<5, 0, 0>>, <<-10, 0, 0>>, <<0, 10, 0>>, <<5, 10, 0>>,
                 <<6, 8, 0>>, <<6, -8, 0>> >>

InsidePoints == { <<5, 0, 0>>, <<10, 0, 0>>, <<0, 0, 0>>, <<-5, 0, 0>>,
                  <<12, 0, 0>>, <<-12, 0, 0>> }

\* the vertices of the pool at the positions S, in the order of the pool.
Pick(pool, S) == [j \in 1..Cardinality(S) |-> pool[Ascending(S)[j]]]

InitInside ==
    /\ Construct({DefaultRadius}, {})
    /\ MeshDrawn
    /\ \E S \in (SUBSET (1..Len(InsidePool))) \ {{}}, p \in InsidePoints,
          c \in BOOLEAN :
          call = [fn |-> "_isInside", done |-> FALSE, vert |-> Pick(InsidePool, S),
                  xyz |-> p, contribute |-> c, result |-> FALSE]

CallInside ==
    /\ call.fn = "_isInside" /\ ~call.done
    /\ \E res \in {_isInside(call.vert, call.xyz, call.contribute)} :
          call' = [call EXCEPT !.done = TRUE, !.result = res]
    /\ UNCHANGED obj

SpecInside == InitInside /\ [][CallInside]_vars

\* -------------------------------------------- direct call of _rescale_cmap
MaxLen == 3

RescaleEntries == {RInt(0), RInt(1), RInt(2), Rat(1, 2), RInt(-1)}

RescaleRanges == {<<RInt(0), RInt(1)>>, <<RInt(-2), RInt(2)>>, <<RInt(1), RInt(3)>>}

RescaleVals == {RInt(0), RInt(1)}

InitRescale ==
    /\ Construct({DefaultRadius}, {})
    /\ MeshDrawn
    /\ \E n \in 1..MaxLen, rg \in RescaleRanges, val \in RescaleVals :
       \E c \in [1..n -> RescaleEntries] :
          call = [fn |-> "_rescale_cmap", done |-> FALSE, cort |-> c, to_min |-> rg[1],
                  to_max |-> rg[2], val |-> val,
                  raised |-> FALSE, out |-> <<>>, non_zero |-> <<>>,
                  again |-> FALSE, raised2 |-> FALSE, out2 |-> <<>>, non_zero2 |-> <<>>]

CallRescale ==
    /\ call.fn = "_rescale_cmap" /\ ~call.done
    /\ \E rs \in {_rescale_cmap(call.cort, call.to_min, call.to_max, call.val)} :
          call' = [call EXCEPT !.done = TRUE, !.raised = rs.raised,
                               !.out = rs.cort, !.non_zero = rs.non_zero]
    /\ UNCHANGED obj

\* _rescale_cmap applied, with the same arguments, to what it returned.
CallRescaleAgain ==
    /\ call.fn = "_rescale_cmap" /\ call.done /\ ~call.raised /\ ~call.again
    /\ \E rs \in {_rescale_cmap(call.out, call.to_min, call.to_max, call.val)} :
          call' = [call EXCEPT !.again = TRUE, !.raised2 = rs.raised,
                               !.out2 = rs.cort, !.non_zero2 = rs.non_zero]
    /\ UNCHANGED obj

NextRescale == CallRescale \/ CallRescaleAgain

SpecRescale == InitRescale /\ [][NextRescale]_vars

\* ------------------------------------------------------- the mesh visual
\* what the mesh actions leave alone
transform == <<t_radius, radius, vert, xyz, data, data_mask, sources_shown,
               current_mask, current_non_zero, vertex_colors, colorbar,
               progress_shown, progress_log, locals, last, call>>

\* the arguments of set_data: given or None (faces given start at 0 or at 1,
\* vertex_colors given have the right or a wrong shape); hemisphere 'both',
\* color None and recenter True as by default.
SetDataArgs ==
    [vertices : BOOLEAN, faces : {"None", "zero", "one"}, normals : BOOLEAN,
     meshdata : BOOLEAN, vertex_colors : {"None", "ok", "bad"}]

NoArgs == [vertices |-> FALSE, faces |-> "None", normals |-> FALSE,
           meshdata |-> FALSE, vertex_colors |-> "None"]

\* set_data up to the assignments: how it ends, where self._tri comes from
\* and whether the wrong-shape warning was given.
SetDataFlow(a) ==
    IF a.faces = "None"
    THEN \* faces.min() on None
         [outcome |-> "AttributeError", tri |-> "none", warned |-> FALSE]
    ELSE IF ~a.vertices /\ a.faces = "None" /\ ~a.meshdata
    THEN [outcome |-> "ValueError", tri |-> "none", warned |-> FALSE]
    ELSE IF ~a.vertices /\ ~a.meshdata
    THEN \* vertices.min() on None
         [outcome |-> "AttributeError", tri |-> "none",
          warned |-> a.vertex_colors = "bad"]
    ELSE [outcome |-> "returned",
          tri |-> IF a.meshdata THEN "meshdata" ELSE "faces",
          warned |-> a.vertex_colors = "bad"]

\* after __init__: set_data and set_light have notified, nothing is drawn.
InitMesh ==
    /\ Construct({DefaultRadius}, {})
    /\ call = NoCall
    /\ _data_changed = TRUE
    /\ _color_changed = FALSE
    /\ _light_changed = TRUE
    /\ \E a \in SetDataArgs, camera \in BOOLEAN :
          /\ SetDataFlow(a).outcome = "returned"
          /\ mesh = [op |-> "__init__", outcome |-> "returned", args |-> a,
                     tri |-> SetDataFlow(a).tri, camera |-> camera,
                     notified |-> {"data", "light"}, due |-> {}, ran |-> {}]

Notified(op, what) ==
    [mesh EXCEPT !.op = op, !.outcome = "returned", !.args = NoArgs,
                 !.notified = @ \cup {what}]

mesh_data_changed ==
    /\ _data_changed' = TRUE
    /\ mesh' = Notified("mesh_data_changed", "data")
    /\ UNCHANGED <<_color_changed, _light_changed, transform>>

\* mesh_color_changed that forgets the flag.
mesh_color_changed_lost ==
    /\ mesh' = Notified("mesh_color_changed", "color")
    /\ UNCHANGED <<_data_changed, _color_changed, _light_changed, transform>>

mesh_color_changed ==
    /\ _color_changed' = TRUE
    /\ mesh' = Notified("mesh_color_changed", "color")
    /\ UNCHANGED <<_data_changed, _light_changed, transform>>

mesh_light_changed ==
    /\ _light_changed' = TRUE
    /\ mesh' = Notified("mesh_light_changed", "light")
    /\ UNCHANGED <<_data_changed, _color_changed, transform>>

\* set_data(...): ends in an error before any assignment, or assigns the
\* elements and calls mesh_data_changed().
set_data ==
    /\ \E a \in SetDataArgs :
       \E f \in {SetDataFlow(a)} :
          IF f.outcome = "returned"
          THEN /\ _data_changed' = TRUE
               /\ mesh' = [mesh EXCEPT !.op = "set_data", !.outcome = "returned",
                                       !.args = a, !.tri = f.tri,
                                       !.notified = @ \cup {"data"}]
          ELSE /\ mesh' = [mesh EXCEPT !.op = "set_data", !.outcome = f.outcome,
                                       !.args = a]
               /\ UNCHANGED _data_changed
    /\ UNCHANGED <<_color_changed, _light_changed, transform>>

\* _prepare_draw(view): every update whose flag is set runs and its flag is
\* cleared; then the light position goes through self._camera_transform,
\* which is None without a camera.
_prepare_draw ==
    /\ _data_changed' = FALSE
    /\ _color_changed' = FALSE
    /\ _light_changed' = FALSE
    /\ mesh' = [mesh EXCEPT
                  !.op = "_prepare_draw",
                  !.outcome = IF mesh.camera THEN "returned" ELSE "AttributeError",
                  !.args = NoArgs,
                  !.ran = (IF _data_changed THEN {"data"} ELSE {})
                          \cup (IF _color_changed THEN {"color"} ELSE {})
                          \cup (IF _light_changed THEN {"light"} ELSE {}),
                  !.due = mesh.notified,
                  !.notified = {}]
    /\ UNCHANGED transform

NextMesh ==
    \/ mesh_data_changed
    \/ mesh_color_changed
    \/ mesh_light_changed
    \/ set_data
    \/ _prepare_draw

SpecMesh == InitMesh /\ [][NextMesh]_vars

\* ================================================================== claims
Returned(op) == last.op = op /\ last.status = "returned"

Displayed(select) == Returned("s_display") /\ last.select = select /\ ~xyz.none

\* C1 as stated: after s_display('left') the unmasked sources are exactly
\* those with first coordinate >= 0, after s_display('right') those with
\* first coordinate <= 0.
C1_AsStated ==
    /\ Displayed("left") =>
          \A k \in 1..Len(data) : (data_mask[k] = FALSE) <=> (xyz.v[k][1] >= 0)
    /\ Displayed("right") =>
          \A k \in 1..Len(data) : (data_mask[k] = FALSE) <=> (xyz.v[k][1] <= 0)

\* C1 amended: after s_display('left') the MASKED sources are exactly those
\* with first coordinate >= 0, after s_display('right') those with first
\* coordinate <= 0; every other source is unmasked.
C1_HemisphereMasks ==
    /\ Displayed("left") =>
          \A k \in 1..Len(data) : (data_mask[k] = TRUE) <=> (xyz.v[k][1] >= 0)
    /\ Displayed("right") =>
          \A k \in 1..Len(data) : (data_mask[k] = TRUE) <=> (xyz.v[k][1] <= 0)

\* a left selection over sources on both sides and on the midline.
C1_Witness ==
    /\ Displayed("left")
    /\ \E k \in 1..Len(data) : xyz.v[k][1] = 0 /\ data_mask[k]
    /\ \E k \in 1..Len(data) : xyz.v[k][1] > 0 /\ data_mask[k]
    /\ \E k \in 1..Len(data) : xyz.v[k][1] < 0 /\ ~data_mask[k]

\* C2 as stated: after s_display('inside') a source is masked exactly when
\* _isInside holds for it.
C2_AsStated ==
    Displayed("inside") =>
       \A k \in 1..Len(data) : data_mask[k] = _isInside(vert, xyz.v[k], FALSE)

\* C2 amended: after s_display('inside') a source is masked exactly when
\* _isInside is false for it, so only the sources classified as inside
\* remain unmasked.
C2_InsideShown ==
    Displayed("inside") =>
       \A k \in 1..Len(data) : data_mask[k] = ~_isInside(vert, xyz.v[k], FALSE)

\* an inside selection that keeps one source and hides another.
C2_Witness ==
    /\ Displayed("inside")
    /\ \E k \in 1..Len(data) : ~data_mask[k] /\ _isInside(vert, xyz.v[k], FALSE)
    /\ \E k \in 1..Len(data) : data_mask[k] /\ ~_isInside(vert, xyz.v[k], FALSE)

\* source at p reaches vertex v of vs: v is in the proximal set of p.
Reaches(vs, p, r, contribute, v) ==
    /\ Square(Diff(vs[v], p)) <= r * r
    /\ (contribute \/ Sign(vs[v][1]) = Sign(p[1]))

\* the unmasked sources that reach vertex v.
Contributors(vs, ps, dmask, r, contribute, v) ==
    {k \in 1..Len(ps) : ~dmask[k] /\ Reaches(vs, ps[k], r, contribute, v)}

\* weight of the source at p on vertex v: 1 - distance/radius, in [0, 1].
Weight(vs, p, r, v) ==
    normalize(<<RSub(RInt(1), Rat(Sqrt(Square(Diff(vs[v], p))), r))>>, RInt(0), RInt(1))[1]

\* sum over the sources k of K of value[k] * weight[k, v].
RECURSIVE WeightedSum(_, _, _, _, _, _)
WeightedSum(K, vs, ps, values, r, v) ==
    IF K = {} THEN RInt(0)
    ELSE LET k == CHOOSE x \in K : TRUE
         IN  RAdd(RMul(RInt(values[k]), Weight(vs, ps[k], r, v)),
                  WeightedSum(K \ {k}, vs, ps, values, r, v))

Projected == last.op = "cortical_projection" /\ locals.cort_mask # <<>>

\* C3 as stated: in cortical_projection the value of vertex v before
\* rescaling is mask[v] divided by the number of unmasked sources whose
\* proximal set contains v, and 0 where no source contributes.
C3_AsStated ==
    Projected =>
       \A v \in 1..Len(vert) :
          LET n == Cardinality(Contributors(vert, xyz.v, data_mask, radius, FALSE, v))
          IN  locals.cort_mask[v] =
                 IF n = 0 THEN RInt(0) ELSE RDiv(locals.mask[v], RInt(n))

\* C4: _get_mask returns prop[v] = fill value + number of unmasked sources
\* whose proximal set contains v, and mask[v] = the sum over those sources
\* of value * weight; masked sources change neither array.
C4_GetMask ==
    (call.fn = "_get_mask" /\ call.done) =>
       \A v \in 1..Len(call.vert) :
          LET K == Contributors(call.vert, call.xyz, call.dmask, call.r, call.contribute, v)
          IN  /\ call.prop[v] = call.set_to + Cardinality(K)
              /\ call.mask[v] = WeightedSum(K, call.vert, call.xyz, call.data, call.r, v)

\* a call with a vertex reached by two unmasked sources, a masked source
\* that reaches a vertex, and a vertex under radius in the other hemisphere.
C4_Witness ==
    /\ call.fn = "_get_mask" /\ call.done /\ ~call.contribute
    /\ \E v \in 1..Len(call.vert) :
          /\ Cardinality(Contributors(call.vert, call.xyz, call.dmask, call.r, FALSE, v)) = 2
          /\ call.mask[v] # RInt(0)
    /\ \E v \in 1..Len(call.vert), k \in 1..Len(call.xyz) :
          call.dmask[k] /\ call.data[k] # 0 /\ Reaches(call.vert, call.xyz[k], call.r, FALSE, v)
    /\ \E v \in 1..Len(call.vert), k \in 1..Len(call.xyz) :
          /\ ~call.dmask[k]
          /\ Reaches(call.vert, call.xyz[k], call.r, TRUE, v)
          /\ ~Reaches(call.vert, call.xyz[k], call.r, FALSE, v)

\* C5 as stated: after cortical_projection completes, current_non_zero
\* marks exactly the vertices in the proximal set of some unmasked source.
C5_AsStated ==
    (Returned("cortical_projection") /\ ~xyz.none) =>
       \A v \in 1..Len(vert) :
          current_non_zero.v[v] <=>
             Contributors(vert, xyz.v, data_mask, radius, FALSE, v) # {}

\* C6 as stated: every cortical_projection / cortical_repartition ends
\* through COMPLETE or NO_SOURCES, returned, with the progress bar hidden.
C6_AsStated ==
    last.op \in {"cortical_projection", "cortical_repartition"} =>
       /\ last.status = "returned"
       /\ last.via \in {"COMPLETE", "NO_SOURCES"}
       /\ ~progress_shown

\* C7: without source coordinates cortical_projection and
\* cortical_repartition warn and leave the mesh colors, the colorbar and
\* the saved current_mask / current_non_zero as they were.
C7_NoSourcesNoEffect ==
    [][(xyz.none /\ (cortical_projection \/ cortical_repartition)) =>
          /\ last'.warned
          /\ UNCHANGED <<vertex_colors, _data_changed, colorbar,
                         current_mask, current_non_zero>>]_vars

\* a projection or repartition that ended with the warning.
C7_Witness ==
    /\ xyz.none
    /\ last.op \in {"cortical_projection", "cortical_repartition"}
    /\ last.via = "NO_SOURCES" /\ last.warned

\* C8 as stated: the radius in use is the t_radius given to __init__.
C8_AsStated == radius = t_radius

\* C9 as stated: every value given to progressbar.setValue is in 0..100.
C9_AsStated ==
    \A i \in 1..Len(progress_log) :
       RLeq(RInt(0), progress_log[i]) /\ RLeq(progress_log[i], RInt(100))

\* C10 as stated: _rescale_cmap on an array whose entries different from
\* val are all equal returns, at each of them, a finite value inside
\* [to_min, to_max].
C10_AsStated ==
    (/\ call.fn = "_rescale_cmap" /\ call.done
     /\ \E v \in 1..Len(call.cort) : RNeq(call.cort[v], call.val)
     /\ \A u, v \in 1..Len(call.cort) :
           (RNeq(call.cort[u], call.val) /\ RNeq(call.cort[v], call.val))
              => call.cort[u] = call.cort[v])
    => /\ ~call.raised
       /\ \A v \in 1..Len(call.cort) :
             RNeq(call.cort[v], call.val) =>
                /\ IsFinite(call.out[v])
                /\ RLeq(call.to_min, call.out[v])
                /\ RLeq(call.out[v], call.to_max)

\* the entries of s selected by the boolean array b.
Selected(s, b) == {s[v] : v \in {u \in 1..Len(s) : b[u]}}

\* C11 as stated: with val = 0 and to_min < to_max, _rescale_cmap applied to
\* its own output of an array with two distinct non-zero entries returns
\* the same array and the same non-zero mask, whose smallest non-zero
\* entry is to_min and largest is to_max.
C11_AsStated ==
    (/\ call.fn = "_rescale_cmap" /\ call.done /\ call.again
     /\ call.val = RInt(0) /\ RLess(call.to_min, call.to_max)
     /\ \E u, v \in 1..Len(call.cort) :
           /\ call.cort[u] # RInt(0) /\ call.cort[v] # RInt(0)
           /\ call.cort[u] # call.cort[v])
    => /\ ~call.raised2
       /\ call.out2 = call.out
       /\ call.non_zero2 = call.non_zero
       /\ RMin(Selected(call.out2, call.non_zero2)) = call.to_min
       /\ RMax(Selected(call.out2, call.non_zero2)) = call.to_max

\* a second call on the output of a call with val = 0, to_min < to_max and
\* two distinct non-zero entries.
RescaledTwice ==
    /\ call.fn = "_rescale_cmap" /\ call.done /\ call.again
    /\ call.val = RInt(0) /\ RLess(call.to_min, call.to_max)
    /\ \E u, v \in 1..Len(call.cort) :
          /\ call.cort[u] # RInt(0) /\ call.cort[v] # RInt(0)
          /\ call.cort[u] # call.cort[v]

\* C11 amended: the same, for the calls whose first output has no entry
\* equal to 0 among the rescaled ones (which excludes to_min = 0).
C11_Idempotent ==
    (/\ RescaledTwice
     /\ \A v \in 1..Len(call.cort) : call.non_zero[v] => call.out[v] # RInt(0))
    => /\ ~call.raised2
       /\ call.out2 = call.out
       /\ call.non_zero2 = call.non_zero
       /\ RMin(Selected(call.out2, call.non_zero2)) = call.to_min
       /\ RMax(Selected(call.out2, call.non_zero2)) = call.to_max

\* a second call on three distinct rescaled entries next to a zero entry.
C11_Witness ==
    /\ RescaledTwice
    /\ \A v \in 1..Len(call.cort) : call.non_zero[v] => call.out[v] # RInt(0)
    /\ \E v \in 1..Len(call.cort) : ~call.non_zero[v]
    /\ Cardinality(Selected(call.out, call.non_zero)) >= 2
    /\ call.out # call.cort

\* C14: a returning _rescale_cmap gives non_zero[v] = (input[v] != val) for
\* every v, and every entry with non_zero[v] false has the same value in the
\* output as in the input.
C14_RescaleFrame ==
    (call.fn = "_rescale_cmap" /\ call.done /\ ~call.raised)
    => \A v \in 1..Len(call.cort) :
          /\ call.non_zero[v] = RNeq(call.cort[v], call.val)
          /\ ~call.non_zero[v] => call.out[v] = call.cort[v]

\* a returned call that rescaled some entries next to an entry equal to val.
C14_Witness ==
    /\ call.fn = "_rescale_cmap" /\ call.done /\ ~call.raised
    /\ \E u, v \in 1..Len(call.cort) :
          /\ ~call.non_zero[u] /\ call.cort[u] = call.val
          /\ call.non_zero[v] /\ call.out[v] # call.cort[v]

\* the vertices of the hemisphere of the point at the smallest distance from it.
NearestOwn(vs, p) ==
    LET own == {v \in 1..Len(vs) : SameHemisphere(vs[v], p)}
    IN  {v \in own : \A u \in own : Square(Diff(vs[v], p)) <= Square(Diff(vs[u], p))}

\* C12 as stated: _isInside(vertices, point, contribute=False) is true iff the
\* point is strictly closer to the origin than the nearest vertex of its own
\* hemisphere is, also when the globally nearest vertex lies in the other
\* hemisphere and when several vertices tie for the minimum distance.
C12_AsStated ==
    (/\ call.fn = "_isInside" /\ call.done /\ ~call.contribute
     /\ NearestOwn(call.vert, call.xyz) # {}
     /\ \A u, v \in NearestOwn(call.vert, call.xyz) :
           Square(call.vert[u]) = Square(call.vert[v]))
    => \A v \in NearestOwn(call.vert, call.xyz) :
          call.result <=> (Square(call.xyz) < Square(call.vert[v]))

\* a projection or repartition that went through _array2cmap.
Colored ==
    /\ last.op \in {"cortical_projection", "cortical_repartition"}
    /\ last.status = "returned" /\ last.via = "COMPLETE"

\* C13: the color array handed to the mesh by _array2cmap has, at every
\* vertex with non_zero false, the RGB of d_vcolor at that vertex with the
\* alpha of the colormap, and at every vertex with non_zero true exactly the
\* colormap output.
C13_DefaultColors ==
    Colored =>
       \A v \in 1..Len(vert) :
          IF current_non_zero.v[v]
          THEN vertex_colors[v] = array2colormap(current_mask.v)[v]
          ELSE /\ vertex_colors[v].rgb = d_vcolor(Len(vert))[v].rgb
               /\ vertex_colors[v].alpha = array2colormap(current_mask.v)[v].alpha

\* colors handed over for a mask with both kinds of vertices.
C13_Witness ==
    /\ Colored
    /\ \E u, v \in 1..Len(vert) : current_non_zero.v[u] /\ ~current_non_zero.v[v]

\* C15: between draws each flag is set exactly when its change was notified
\* since the previous draw, and each _prepare_draw runs _update_data,
\* _update_color and _update_light exactly for the notifications since the
\* previous draw and leaves _data_changed, _color_changed and _light_changed
\* false.
C15_DrawRunsNotified ==
    /\ _data_changed <=> "data" \in mesh.notified
    /\ _color_changed <=> "color" \in mesh.notified
    /\ _light_changed <=> "light" \in mesh.notified
    /\ mesh.op = "_prepare_draw" =>
          /\ mesh.ran = mesh.due
          /\ ~_data_changed /\ ~_color_changed /\ ~_light_changed

\* a draw after a color notification alone: only _update_color ran.
C15_Witness ==
    /\ mesh.op = "_prepare_draw"
    /\ mesh.due = {"color"} /\ mesh.ran = {"color"}
    /\ ~_data_changed /\ ~_color_changed /\ ~_light_changed

\* C16 as stated: set_data with vertices, faces and meshdata all None ends
\* with the ValueError, and set_data with only meshdata given (faces None)
\* returns and takes its faces from the meshdata.
C16_AsStated ==
    mesh.op = "set_data" =>
       /\ (~mesh.args.vertices /\ mesh.args.faces = "None" /\ ~mesh.args.meshdata)
             => mesh.outcome = "ValueError"
       /\ (~mesh.args.vertices /\ mesh.args.faces = "None" /\ mesh.args.meshdata)
             => mesh.outcome = "returned" /\ mesh.tri = "meshdata"

====
